---- MODULE Spec2Model ----
(***************************************************************************)
(* Model of Fluo_2D_nuclei_segmentation.ipynb: the numeric helpers         *)
(* (merge_touching_labels, remove_small_islands, assign_labels), the       *)
(* stain registry and the calibration cell with its setup CSV, the         *)
(* preprocessing cells, and the cells from nucleus segmentation to the     *)
(* spreadsheet export.                                                     *)
(*                                                                         *)
(* An image plane is a function from Pix (row, column) to a natural        *)
(* number. Library calls whose result depends on pixel intensities         *)
(* (watershed, StarDist, the napari viewer the user edits) are inputs      *)
(* drawn from bounded sets.                                                *)
(***************************************************************************)
EXTENDS Integers, Sequences, FiniteSets, TLC

VARIABLES
    pc,              \* position of the running cell or call
    label_matrix,    \* merge_touching_labels: the argument
    merged,          \* merge_touching_labels: the returned matrix
    binary_matrix,   \* remove_small_islands: the argument (written in place)
    area_threshold,  \* remove_small_islands: the threshold
    arrayseg0,       \* the mask as it was when remove_small_islands was called
    A,               \* assign_labels: source mask
    B,               \* assign_labels: label matrix
    connectivity,    \* assign_labels: 1 or 2
    C,               \* assign_labels: the returned matrix
    stain_index,     \* stain_df.index: the Condition of every channel, in order
    trig_stardist,   \* segmentation mode
    im_threshold,    \* thresholded mask of every channel
    seg_raw,         \* what the segmentation library returned (transl / instances)
    defined,         \* the names the kernel has bound so far
    im_segmented,    \* nucleus label matrix
    im_assigned,     \* per channel, the labels given to the marker's islands
    labels_df,       \* quantification record, one row per marker
    xlsx_dict,       \* rows of the sheet NUCLEI
    error,           \* the unhandled exception that ended the run, or "none"
    setup_csv,       \* the file <name_setup>_setup.csv
    stain_df,        \* rows of stain_df, one (Condition, Marker, Color) per channel
    use_setup,       \* the flag of the calibration cell
    viewer_1,        \* the napari viewer of the calibration cell
    stain_complete_df, \* the stain settings table
    branches,        \* the branches the calibration cell took in its last run
    stain_dict,      \* the dictionary typed into the stain registry cell
    stdout,          \* what the stain registry cell printed
    meta,            \* the TIFF file: its planes
    im_out           \* the image stack, one plane per channel, as processed so far

mergeVars == <<label_matrix, merged>>
islandVars == <<binary_matrix, area_threshold, arrayseg0>>
assignVars == <<A, B, connectivity, C>>
pipeVars == <<stain_index, trig_stardist, im_threshold, defined, seg_raw, im_segmented,
              im_assigned, labels_df, xlsx_dict, error>>
setupVars == <<setup_csv, stain_df, use_setup, viewer_1, stain_complete_df, branches,
               stain_dict, stdout>>
preVars == <<meta, im_out>>
vars == <<pc, mergeVars, islandVars, assignVars, pipeVars, setupVars, preVars>>

\* A variable of a program that the running specification does not execute.
Unused == "-"

\* The value shown for a name the kernel has not bound yet (see defined).
Undefined == <<>>

MergeIdle == label_matrix = Unused /\ merged = Unused
IslandIdle == binary_matrix = Unused /\ area_threshold = Unused /\ arrayseg0 = Unused
AssignIdle == A = Unused /\ B = Unused /\ connectivity = Unused /\ C = Unused
PipeIdle ==
    /\ stain_index = Unused /\ trig_stardist = Unused /\ im_threshold = Unused
    /\ defined = Unused /\ seg_raw = Unused /\ im_segmented = Unused /\ im_assigned = Unused
    /\ labels_df = Unused /\ xlsx_dict = Unused /\ error = Unused
SetupIdle ==
    /\ setup_csv = Unused /\ stain_df = Unused /\ use_setup = Unused
    /\ viewer_1 = Unused /\ stain_complete_df = Unused /\ branches = Unused
    /\ stain_dict = Unused /\ stdout = Unused
PreIdle == meta = Unused /\ im_out = Unused

-----------------------------------------------------------------------------
(* Bounds *)

Rows == 2
Cols == 3
MaxLabel == 3
MaxNuclei == 2
MaxThreshold == 4
SetupChannels == 2
MaxPlanes == 3

\* th_filter.SetOutsideValue(200): the foreground value of a thresholded mask
OutsideValue == 200

-----------------------------------------------------------------------------
(* Arrays *)

Pix == (0 .. Rows - 1) \X (0 .. Cols - 1)

\* position of a pixel in row-major (C) order, the order of ravel / np.where
ravel(p) == p[1] * Cols + p[2]

Max(S) == CHOOSE x \in S : \A y \in S : y <= x
Min(S) == CHOOSE x \in S : \A y \in S : x <= y

Range(s) == {s[k] : k \in DOMAIN s}

RECURSIVE SortedSeq(_)
SortedSeq(S) == IF S = {} THEN <<>>
                ELSE <<Min(S)>> \o SortedSeq(S \ {Min(S)})

\* np.unique over the pixels P of M: the distinct values, ascending
np_unique(M, P) == SortedSeq({M[p] : p \in P})

zeros_like == [p \in Pix |-> 0]

LabelMatrices(maxv) == [Pix -> 0 .. maxv]

-----------------------------------------------------------------------------
(* merge_touching_labels *)

\* np.pad(label_matrix, 1, mode='constant', constant_values=0)
padded_of(M) ==
    [q \in (0 .. Rows + 1) \X (0 .. Cols + 1) |->
        IF <<q[1] - 1, q[2] - 1>> \in Pix THEN M[<<q[1] - 1, q[2] - 1>>] ELSE 0]

\* a window with the four edge neighbours only
neighborhood4(padded, i, j) ==
    <<padded[<<i - 1, j>>], padded[<<i, j - 1>>], padded[<<i, j>>],
      padded[<<i, j + 1>>], padded[<<i + 1, j>>]>>

\* padded[i-1:i+2, j-1:j+2].ravel()
neighborhood(padded, i, j) ==
    [k \in 1 .. 9 |-> padded[<<i - 1 + ((k - 1) \div 3), j - 1 + ((k - 1) % 3)>>]]

\* The double loop that fills touching (a defaultdict(set)): keys in insertion
\* order, sets[c] the neighbours recorded for c.
RECURSIVE ScanTouching(_, _, _)
ScanTouching(padded, k, t) ==
    IF k = Rows * Cols THEN t
    ELSE LET i == (k \div Cols) + 1
             j == (k % Cols) + 1
             center == padded[<<i, j>>]
             nb == Range(neighborhood(padded, i, j)) \ {center, 0}
         IN  IF center = 0 \/ nb = {}
             THEN ScanTouching(padded, k + 1, t)
             ELSE ScanTouching(padded, k + 1,
                    [keys |-> IF center \in Range(t.keys) THEN t.keys
                              ELSE Append(t.keys, center),
                     sets |-> [t.sets EXCEPT ![center] = @ \cup nb]])

touching_of(M) ==
    ScanTouching(padded_of(M), 0,
                 [keys |-> <<>>, sets |-> [l \in 1 .. Max(Range(M)) |-> {}]])

\* labels that touch another label only
all_labels_touching(M) == Range(touching_of(M).keys)

\* all_labels = set(np.unique(label_matrix)) - {0}
all_labels_of(M) == Range(M) \ {0}

\* find(u), with its path halving: <<parent after the call, root>>
RECURSIVE find(_, _)
find(parent, u) ==
    IF parent[u] = u THEN <<parent, u>>
    ELSE LET halved == [parent EXCEPT ![u] = parent[parent[u]]]
         IN  find(halved, halved[u])

\* union(u, v): the parent dict after the call
union(parent, u, v) ==
    LET fu == find(parent, u)
        fv == find(fu[1], v)
    IN  IF fu[2] # fv[2] THEN [fv[1] EXCEPT ![fu[2]] = fv[2]] ELSE fv[1]

\* for u, neighbors in touching.items(): for v in neighbors: the (u, v) in
\* iteration order (a set of small integers iterates in ascending order)
RECURSIVE TouchingPairs(_, _)
TouchingPairs(t, n) ==
    IF n > Len(t.keys) THEN <<>>
    ELSE LET u == t.keys[n]
             vs == SortedSeq(t.sets[u])
         IN  [k \in 1 .. Len(vs) |-> <<u, vs[k]>>] \o TouchingPairs(t, n + 1)

RECURSIVE UnionAll(_, _, _)
UnionAll(parent, pairs, n) ==
    IF n > Len(pairs) THEN parent
    ELSE LET u == pairs[n][1]
             v == pairs[n][2]
         IN  IF u \in DOMAIN parent /\ v \in DOMAIN parent
             THEN UnionAll(union(parent, u, v), pairs, n + 1)
             ELSE UnionAll(parent, pairs, n + 1)

\* label_map = {label: find(label) for label in all_labels}
RECURSIVE LabelMap(_, _, _, _)
LabelMap(parent, labels, n, map) ==
    IF n > Len(labels) THEN map
    ELSE LET f == find(parent, labels[n])
         IN  LabelMap(f[1], labels, n + 1, [map EXCEPT ![labels[n]] = f[2]])

\* a relabelling that keeps the labels it is given
relabel_none(M) == M

\* skimage.segmentation.relabel_sequential: the nonzero labels, in ascending
\* order, become 1, 2, ...
relabel_sequential(M) ==
    [p \in Pix |-> IF M[p] = 0 THEN 0
                   ELSE Cardinality({v \in Range(M) \ {0} : v <= M[p]})]

merge_touching_labels(M) ==
    IF Max(Range(M)) = 0 THEN M
    ELSE LET all_labels == all_labels_of(M)
             parent0 == [l \in all_labels |-> l]
             parent == UnionAll(parent0, TouchingPairs(touching_of(M), 1), 1)
             label_map == LabelMap(parent, SortedSeq(all_labels), 1, parent0)
             roots == [p \in Pix |-> IF M[p] \in all_labels
                                     THEN label_map[M[p]] ELSE 0]
         IN  relabel_sequential(roots)


-----------------------------------------------------------------------------
(* scipy.ndimage.label *)

\* the structuring element: None (the default) links edge neighbours only,
\* np.ones((3, 3)) links the diagonal neighbours too
linked_by(structure, p, q) ==
    LET dr == IF p[1] >= q[1] THEN p[1] - q[1] ELSE q[1] - p[1]
        dc == IF p[2] >= q[2] THEN p[2] - q[2] ELSE q[2] - p[2]
    IN  IF structure = "ones" THEN p # q /\ dr <= 1 /\ dc <= 1
        ELSE dr + dc = 1

\* the feature that contains the pixels S, grown inside the foreground F
RECURSIVE Flood(_, _, _)
Flood(S, F, structure) ==
    LET N == {q \in F \ S : \E p \in S : linked_by(structure, p, q)}
    IN  IF N = {} THEN S ELSE Flood(S \cup N, F, structure)

\* features are numbered in the order the raster scan meets them
RECURSIVE LabelScan(_, _, _, _)
LabelScan(M, structure, k, out) ==
    IF k = Rows * Cols THEN out
    ELSE LET p == <<k \div Cols, k % Cols>>
         IN  IF M[p] = 0 \/ out.labeled_array[p] # 0
             THEN LabelScan(M, structure, k + 1, out)
             ELSE LET feature == Flood({p}, {q \in Pix : M[q] # 0}, structure)
                      n == out.num_features + 1
                  IN  LabelScan(M, structure, k + 1,
                        [labeled_array |-> [q \in Pix |->
                             IF q \in feature THEN n ELSE out.labeled_array[q]],
                         num_features |-> n])

ndi_label(M, structure) ==
    LabelScan(M, structure, 0, [labeled_array |-> zeros_like, num_features |-> 0])

-----------------------------------------------------------------------------
(* remove_small_islands *)

\* a comparison that also removes a component of exactly the threshold
below_or_at(count, threshold) == count <= threshold

\* component.sum() < area_threshold
below(count, threshold) == count < threshold

\* for i in range(1, num_features + 1): ... binary_matrix[component] = 0
RECURSIVE RemoveLoop(_, _, _, _)
RemoveLoop(bm, lab, i, threshold) ==
    IF i > lab.num_features THEN bm
    ELSE LET component == {p \in Pix : lab.labeled_array[p] = i}
         IN  IF below(Cardinality(component), threshold)
             THEN RemoveLoop([p \in Pix |-> IF p \in component THEN 0 ELSE bm[p]],
                             lab, i + 1, threshold)
             ELSE RemoveLoop(bm, lab, i + 1, threshold)

\* the argument after the call, which is also the value returned
remove_small_islands(bm, threshold) ==
    RemoveLoop(bm, ndi_label(bm, "cross"), 1, threshold)

-----------------------------------------------------------------------------
(* assign_labels *)

\* structure = np.ones((3, 3)) if connectivity == 2 else None
structure_of(conn) == IF conn = 2 THEN "ones" ELSE "cross"

\* every pixel of the island, labelled or not
mask_all(Bm, mask) == mask

\* mask & (B > 0)
mask_positive(Bm, mask) == {p \in mask : Bm[p] > 0}

\* the labels in the order the raster scan meets them
overlap_in_scan_order(Bm, P) ==
    LET byIndex == SortedSeq({ravel(p) : p \in P})
    IN  [k \in 1 .. Len(byIndex) |-> Bm[<<byIndex[k] \div Cols, byIndex[k] % Cols>>]]

\* overlapping_labels = np.unique(B[mask & (B > 0)])
overlapping_labels_of(Bm, P) == np_unique(Bm, P)

RECURSIVE AssignLoop(_, _, _, _)
AssignLoop(Cm, lab, Bm, i) ==
    IF i > lab.num_features THEN Cm
    ELSE LET mask == {p \in Pix : lab.labeled_array[p] = i}
             overlapping_labels == overlapping_labels_of(Bm, mask_positive(Bm, mask))
             value == IF Len(overlapping_labels) > 0 THEN overlapping_labels[1] ELSE 0
         IN  AssignLoop([p \in Pix |-> IF p \in mask THEN value ELSE Cm[p]],
                        lab, Bm, i + 1)

assign_labels(Am, Bm, conn) ==
    AssignLoop(zeros_like, ndi_label(Am, structure_of(conn)), Bm, 1)

-----------------------------------------------------------------------------
(* The call merge_touching_labels(label_matrix) on every label matrix *)

InitMerge ==
    /\ pc = "call"
    /\ label_matrix \in LabelMatrices(MaxLabel)
    /\ merged = Unused
    /\ IslandIdle /\ AssignIdle /\ PipeIdle /\ SetupIdle /\ PreIdle

MergeCall ==
    /\ pc = "call"
    /\ merged' = merge_touching_labels(label_matrix)
    /\ pc' = "return"
    /\ UNCHANGED <<label_matrix, islandVars, assignVars, pipeVars, setupVars, preVars>>

NextMerge == MergeCall

SpecMerge == InitMerge /\ [][NextMerge]_vars

-----------------------------------------------------------------------------
(* The call remove_small_islands(binary_matrix, area_threshold) on every    *)
(* two-valued mask and every threshold                                      *)

Masks == [Pix -> {0, OutsideValue}]

InitIslands ==
    /\ pc = "call"
    /\ binary_matrix \in Masks
    /\ area_threshold \in 0 .. MaxThreshold
    /\ arrayseg0 = binary_matrix
    /\ MergeIdle /\ AssignIdle /\ PipeIdle /\ SetupIdle /\ PreIdle

RemoveCall ==
    /\ pc = "call"
    /\ binary_matrix' = remove_small_islands(binary_matrix, area_threshold)
    /\ pc' = "return"
    /\ UNCHANGED <<area_threshold, arrayseg0, mergeVars, assignVars, pipeVars, setupVars, preVars>>

NextIslands == RemoveCall

SpecIslands == InitIslands /\ [][NextIslands]_vars

-----------------------------------------------------------------------------
(* The call assign_labels(A, B, connectivity) on every mask, every label    *)
(* matrix and both connectivities                                           *)

InitAssign ==
    /\ pc = "call"
    /\ A \in Masks
    /\ B \in LabelMatrices(MaxNuclei)
    /\ connectivity \in {1, 2}
    /\ C = Unused
    /\ MergeIdle /\ IslandIdle /\ PipeIdle /\ SetupIdle /\ PreIdle

AssignCall ==
    /\ pc = "call"
    /\ C' = assign_labels(A, B, connectivity)
    /\ pc' = "return"
    /\ UNCHANGED <<A, B, connectivity, mergeVars, islandVars, pipeVars, setupVars, preVars>>

NextAssign == AssignCall

SpecAssign == InitAssign /\ [][NextAssign]_vars

-----------------------------------------------------------------------------
(* The cells from nucleus segmentation to the export *)

\* stain_dict: Marker and Color of a Condition, upper-cased
Marker(cond) == CASE cond = "MACRO" -> "F4_80"
                  [] cond = "M2" -> "CD206"
                  [] cond = "NUCLEI" -> "DAPI"
Color(cond) == CASE cond = "MACRO" -> "RED"
                 [] cond = "M2" -> "GREEN"
                 [] cond = "NUCLEI" -> "BLUE"

\* the stain tables of the runs: NUCLEI first, NUCLEI last, no NUCLEI
StainTables == {<<"NUCLEI", "MACRO">>, <<"MACRO", "NUCLEI">>, <<"MACRO", "M2">>}

\* physical pixel sizes read from the metadata, in the unit of the report
r_X == 1
r_Y == 2

Channels == DOMAIN stain_index

\* The label matrices a segmentation library returns for a channel whose
\* thresholded foreground is mask: every labelling of that foreground. For
\* watershed(-distance, markers, mask=...) the mask confines the labels; the
\* instances of model.predict_instances are drawn from the same set.
SegmentationResults(mask) ==
    {M \in LabelMatrices(MaxNuclei) : \A p \in Pix : (M[p] = 0) <=> (mask[p] = 0)}

\* sum of the coordinate c (1 = row, 2 = column) over the pixels S
RECURSIVE SumCoord(_, _)
SumCoord(S, c) == IF S = {} THEN 0
                  ELSE LET p == CHOOSE q \in S : TRUE
                       IN  p[c] + SumCoord(S \ {p}, c)

\* y, x = np.where(M == n); (np.mean(x * r_X), np.mean(y * r_Y)): each mean as
\* <<sum, count>>, count 0 being nan
mean_position(M, n) ==
    LET where == {p \in Pix : M[p] = n}
    IN  <<<<SumCoord(where, 2) * r_X, Cardinality(where)>>,
          <<SumCoord(where, 1) * r_Y, Cardinality(where)>>>>

\* x.size * r_X * r_Y
area_of(M, n) == Cardinality({p \in Pix : M[p] = n}) * r_X * r_Y

Tail0(s) == IF s = <<>> THEN <<>> ELSE Tail(s)

\* the rows of an image plane from row r on: M[r:, :]
rows_from(r) == {p \in Pix : p[1] >= r}

\* the slice im_assigned[1:, :, i] of 'Shared labels'
shared_slice == rows_from(1)

InitPipe ==
    /\ pc = "segmentation"
    /\ stain_index \in StainTables
    /\ trig_stardist \in BOOLEAN
    /\ im_threshold \in [DOMAIN stain_index -> Masks]
    /\ defined = {}
    /\ seg_raw = Undefined
    /\ im_segmented = Undefined
    /\ im_assigned = Undefined
    /\ labels_df = Undefined
    /\ xlsx_dict = Undefined
    /\ error = "none"
    /\ MergeIdle /\ IslandIdle /\ AssignIdle /\ SetupIdle /\ PreIdle

Raise(cell, exc) ==
    /\ pc' = "failed"
    /\ error' = [cell |-> cell, type |-> exc]

\* im_out[:, :, z] of the NUCLEI channel: the instances as predicted, or the
\* watershed regions merged
segment(raw) == IF trig_stardist THEN raw ELSE merge_touching_labels(raw)

\* a loop that segments the first channel when none is NUCLEI
nuclei_channels_or_first ==
    IF \E z \in Channels : stain_index[z] = "NUCLEI"
    THEN {z \in Channels : stain_index[z] = "NUCLEI"}
    ELSE {1}

\* the channels the loop segments: if stain_df.index[z] == 'NUCLEI'
nuclei_channels == {z \in Channels : stain_index[z] = "NUCLEI"}

\* cell: segmentation of nuclei using watershed or StarDist
Segmentation ==
    /\ pc = "segmentation"
    /\ IF nuclei_channels = {}
       THEN /\ pc' = "assignment"
            /\ UNCHANGED <<defined, seg_raw, im_segmented, error>>
       ELSE \E z \in nuclei_channels :
              /\ TRUE
              /\ \E raw \in SegmentationResults(im_threshold[z]) :
                    LET out == segment(raw)
                    IN  /\ seg_raw' = raw
                        /\ IF Max(Range(out)) = 0
                           THEN \* cm_rand has no row 0
                                /\ Raise("segmentation", "IndexError")
                                /\ UNCHANGED <<defined, im_segmented>>
                           ELSE /\ im_segmented' = out
                                /\ defined' = defined \cup {"im_segmented"}
                                /\ pc' = "assignment"
                                /\ UNCHANGED error
    /\ UNCHANGED <<stain_index, trig_stardist, im_threshold, im_assigned,
                   labels_df, xlsx_dict, mergeVars, islandVars, assignVars,
                   setupVars, preVars>>

\* cell: assign segmented nuclei labels to other channels
Assignment ==
    /\ pc = "assignment"
    /\ IF "im_segmented" \notin defined
          /\ \E z \in Channels : stain_index[z] # "NUCLEI"
       THEN /\ Raise("assignment", "NameError")
            /\ UNCHANGED <<defined, im_assigned>>
       ELSE /\ im_assigned' =
                 [z \in Channels |->
                     IF stain_index[z] # "NUCLEI"
                     THEN assign_labels(im_threshold[z], im_segmented, 1)
                     ELSE zeros_like]
            /\ defined' = defined \cup {"im_assigned"}
            /\ pc' = "quantification"
            /\ UNCHANGED error
    /\ UNCHANGED <<stain_index, trig_stardist, im_threshold, seg_raw, im_segmented,
                   labels_df, xlsx_dict, mergeVars, islandVars, assignVars,
                   setupVars, preVars>>

\* the row of labels_dict for the NUCLEI channel
nuclei_record(i_nuc) ==
    LET N == Max(Range(im_segmented))
    IN  [Combination |-> Marker(stain_index[i_nuc]),
         Condition |-> stain_index[i_nuc],
         Color |-> Color(stain_index[i_nuc]),
         Number |-> N,
         Shared |-> <<>>,
         Positions |-> [n \in 1 .. N |-> mean_position(im_segmented, n)],
         NucleiSize |-> [n \in 1 .. N |-> area_of(im_segmented, n)],
         CellSize |-> <<>>]

\* the row of labels_dict for the marker channel i
marker_record(i) ==
    LET labels == Tail0(np_unique(im_assigned[i], Pix))
    IN  [Combination |-> Marker(stain_index[i]),
         Condition |-> stain_index[i],
         Color |-> Color(stain_index[i]),
         Number |-> Len(labels),
         Shared |-> Tail0(np_unique(im_assigned[i], shared_slice)),
         Positions |-> [k \in 1 .. Len(labels) |-> mean_position(im_segmented, labels[k])],
         NucleiSize |-> [k \in 1 .. Len(labels) |-> area_of(im_segmented, labels[k])],
         CellSize |-> [k \in 1 .. Len(labels) |-> area_of(im_assigned[i], labels[k])]]

\* the marker channels, in channel order
RECURSIVE MarkerRows(_, _)
MarkerRows(i, i_nuc) ==
    IF i > Len(stain_index) THEN <<>>
    ELSE (IF i # i_nuc THEN <<marker_record(i)>> ELSE <<>>) \o MarkerRows(i + 1, i_nuc)

\* cells: quantify nuclei and cell properties; create the DataFrame
Quantification ==
    /\ pc = "quantification"
    /\ IF \A z \in Channels : stain_index[z] # "NUCLEI"
       THEN /\ Raise("quantification", "KeyError")
            /\ UNCHANGED <<defined, labels_df>>
       ELSE LET i_nuc == CHOOSE z \in Channels : stain_index[z] = "NUCLEI"
            IN  /\ labels_df' = <<nuclei_record(i_nuc)>> \o MarkerRows(1, i_nuc)
                /\ defined' = defined \cup {"labels_df"}
                /\ pc' = "plots"
                /\ UNCHANGED error
    /\ UNCHANGED <<stain_index, trig_stardist, im_threshold, seg_raw, im_segmented,
                   im_assigned, xlsx_dict, mergeVars, islandVars, assignVars,
                   setupVars, preVars>>

\* cell: plot size distribution of nuclei and cells; max() of no value raises
Plots ==
    /\ pc = "plots"
    /\ IF \A t \in DOMAIN labels_df : labels_df[t].CellSize = <<>>
       THEN Raise("plots", "ValueError")
       ELSE pc' = "export" /\ UNCHANGED error
    /\ UNCHANGED <<stain_index, trig_stardist, im_threshold, defined, seg_raw,
                   im_segmented, im_assigned, labels_df, xlsx_dict,
                   mergeVars, islandVars, assignVars, setupVars, preVars>>

\* list(shared).index(k)
index_of(shared, k) == Min({j \in DOMAIN shared : shared[j] = k})

\* the cells a row of the sheet gets from one marker
marker_cells(t, k) ==
    LET shared == labels_df[t].Shared
    IN  IF k \in Range(shared)
        THEN <<labels_df[t].Combination, labels_df[t].CellSize[index_of(shared, k)]>>
        ELSE <<"", "">>

\* range(1, int(labels_df['Number'][0]))
export_range(N) == 1 .. (N - 1)

\* cell: export quantification results to Excel (sheet NUCLEI)
Export ==
    /\ pc = "export"
    /\ xlsx_dict' =
          [k \in export_range(labels_df[1].Number) |->
              [X |-> labels_df[1].Positions[k][1],
               Y |-> labels_df[1].Positions[k][2],
               NucleiSize |-> labels_df[1].NucleiSize[k],
               Markers |-> [t \in 2 .. Len(labels_df) |-> marker_cells(t, k)]]]
    /\ defined' = defined \cup {"xlsx_dict"}
    /\ pc' = "done"
    /\ UNCHANGED <<stain_index, trig_stardist, im_threshold, seg_raw, im_segmented,
                   im_assigned, labels_df, error, mergeVars, islandVars, assignVars,
                   setupVars, preVars>>

NextPipe == Segmentation \/ Assignment \/ Quantification \/ Plots \/ Export

SpecPipe == InitPipe /\ [][NextPipe]_vars

-----------------------------------------------------------------------------
(* The stain registry and the calibration cell, run after run *)

\* The (Condition, Marker, Color) keys of the stain tables, numbered in the
\* order sort_index gives them: tuples compare level by level, as strings.
KeyTuple == <<  <<"M2", "CD206", "GREEN">>,
                <<"MACRO", "CD68", "RED">>,
                <<"MACRO", "F4_80", "RED">>,
                <<"NUCLEI", "DAPI", "BLUE">>  >>
Keys == DOMAIN KeyTuple
ConditionOf(k) == KeyTuple[k][1]

\* stain_dict has one entry per Condition
SetupTables ==
    {t \in [1 .. SetupChannels -> Keys] :
        \A a, b \in 1 .. SetupChannels : a # b => ConditionOf(t[a]) # ConditionOf(t[b])}

\* An entry of stain_dict as the user types it: <<Condition, Marker, Color>>,
\* in any case (the notebook's own entries are 'Red', 'Green', 'Blue').
RawEntry == <<  <<"M2", "CD206", "Green">>,
                <<"macro", "cd68", "red">>,
                <<"MACRO", "F4_80", "Red">>,
                <<"NUCLEI", "DAPI", "Blue">>  >>

\* the dictionaries typed into the registry cell, in insertion order
StainDicts == {[c \in DOMAIN t |-> RawEntry[t[c]]] : t \in SetupTables}

\* str.upper() on the strings of the entries
upper(s) == CASE s = "macro" -> "MACRO"
              [] s = "cd68" -> "CD68"
              [] s = "red" -> "RED"
              [] s = "Red" -> "RED"
              [] s = "Green" -> "GREEN"
              [] s = "Blue" -> "BLUE"
              [] OTHER -> s

\* the upper-cased dictionary turned into stain_df: one row per entry, in
\* insertion order, each row written as its number in KeyTuple
from_dict(d) ==
    [c \in DOMAIN d |->
        CHOOSE k \in Keys : KeyTuple[k] = <<upper(d[c][1]), upper(d[c][2]), upper(d[c][3])>>]

\* a registry cell that prints nothing
nuclei_warning_never(df) == <<>>

\* if 'NUCLEI' not in stain_df.index: print('No nuclei condition!')
nuclei_warning(df) ==
    IF \A c \in DOMAIN df : ConditionOf(df[c]) # "NUCLEI"
    THEN <<"No nuclei condition!">>
    ELSE <<>>

\* What the user can leave in a layer of the viewer: contrast limits and gamma
\* are floats, written here in tenths.
LayerSettings == {[lo |-> 0, hi |-> 2550, gamma |-> 10],
                  [lo |-> 127, hi |-> 2004, gamma |-> 5]}

\* int(x) of a non-negative float given in tenths
int_of(tenths) == tenths \div 10

\* name=f"{idx[0]} ({idx[1]})"
layer_name(k) == <<KeyTuple[k][1], KeyTuple[k][2]>>

\* stain_complete_df[['Cont_min', 'Cont_max', 'Gamma']] = [0, 255, 1]
default_row(k) == [key |-> k, Cont_min |-> 0, Cont_max |-> 255, Gamma |-> 10]

NoFile == [exists |-> FALSE, rows |-> {}]

\* idx in stain_setup_df.index
in_index(rows, k) == \E r \in rows : r.key = k

\* stain_setup_df.loc[idx]
loc(rows, k) == CHOOSE r \in rows : r.key = k

\* the loop that copies the stored rows: <<stain_complete_df, use_setup>>
RECURSIVE LoadLoop(_, _, _, _)
LoadLoop(df, rows, c, use) ==
    IF c > Len(df) THEN <<df, use>>
    ELSE IF in_index(rows, df[c].key)
         THEN LoadLoop([df EXCEPT ![c] = loc(rows, df[c].key)], rows, c + 1, use)
         ELSE LoadLoop(df, rows, c + 1, FALSE)

\* a load that leaves use_setup as it was when a key is missing
load_setup_keep(df, csv, use) ==
    IF use /\ csv.exists THEN <<LoadLoop(df, csv.rows, 1, use)[1], use>> ELSE <<df, use>>

\* lines 263-270
load_setup(df, csv, use) ==
    IF use /\ csv.exists THEN LoadLoop(df, csv.rows, 1, use) ELSE <<df, use>>

\* a cell that calibrates in every run
interactive_always(use, csv) == TRUE

\* if not use_setup or not os.path.exists(setup_path)
interactive(use, csv) == ~use \/ ~csv.exists

\* stain_complete_df.sort_index(inplace=True)
RECURSIVE sort_index(_)
sort_index(df) ==
    IF df = <<>> THEN <<>>
    ELSE LET c == CHOOSE a \in DOMAIN df : \A b \in DOMAIN df : df[a].key <= df[b].key
         IN  <<df[c]>> \o sort_index([n \in 1 .. Len(df) - 1 |->
                                         IF n < c THEN df[n] ELSE df[n + 1]])

\* viewer_1.add_image for every row of the table, in the order of its index:
\* the layer of row c shows plane Z=c of the file under the row's name;
\* settings is what the user leaves in the layers when the viewer closes
add_images(df, settings) ==
    [c \in DOMAIN df |->
        [name |-> layer_name(df[c].key), plane |-> c,
         lo |-> settings[c].lo, hi |-> settings[c].hi, gamma |-> settings[c].gamma]]

\* contrast_limits[name], gamma_val[name]: the dictionaries keyed by layer name
layer_named(layers, name) == layers[CHOOSE c \in DOMAIN layers : layers[c].name = name]

\* lines 285-288: the values read from the layer named after the row
recorded(k, layers) ==
    LET layer == layer_named(layers, layer_name(k))
    IN  [key |-> k, Cont_min |-> int_of(layer.lo), Cont_max |-> int_of(layer.hi),
         Gamma |-> layer.gamma]

\* a cell that writes only the rows of the current table
written_rows_fresh(df, csv) == Range(df)

\* lines 289-298: the rows written to the CSV
written_rows(df, csv) ==
    IF csv.exists
    THEN {r \in csv.rows : \A c \in DOMAIN df : df[c].key # r.key} \cup Range(df)
    ELSE Range(df)

\* a cell that leaves the rows in the order it has them
by_condition_skipped(df, stain) == df

\* lines 300-303: the rows put back in the order of stain_df, by Condition
by_condition(df, stain) ==
    [c \in 1 .. Len(stain) |->
        df[CHOOSE n \in DOMAIN df : ConditionOf(df[n].key) = ConditionOf(stain[c])]]

InitSetup ==
    /\ pc = "stain"
    /\ setup_csv = NoFile
    /\ stain_df = <<>>
    /\ use_setup = TRUE
    /\ viewer_1 = [opened |-> FALSE, layers |-> <<>>]
    /\ stain_complete_df = <<>>
    /\ branches = {}
    /\ stain_dict = <<>>
    /\ stdout = <<>>
    /\ MergeIdle /\ IslandIdle /\ AssignIdle /\ PipeIdle /\ PreIdle

\* cell: define staining dictionary and create DataFrame; the user also sets
\* use_setup at the top of the calibration cell
StainRegistry ==
    /\ pc = "stain"
    /\ stain_dict' \in StainDicts
    /\ stain_df' = from_dict(stain_dict')
    /\ stdout' = nuclei_warning(stain_df')
    /\ use_setup' \in BOOLEAN
    /\ pc' = "setup"
    /\ UNCHANGED <<setup_csv, viewer_1, stain_complete_df, branches,
                   mergeVars, islandVars, assignVars, pipeVars, preVars>>

\* cell: setup for acquisition and contrast/gamma settings
SetupCell ==
    /\ pc = "setup"
    /\ LET df0 == [c \in 1 .. Len(stain_df) |-> default_row(stain_df[c])]
           loaded == load_setup(df0, setup_csv, use_setup)
       IN  /\ use_setup' = loaded[2]
           /\ branches' =
                 (IF use_setup /\ setup_csv.exists THEN {"read_csv"} ELSE {})
                 \cup (IF use_setup /\ ~loaded[2] THEN {"key_missing"} ELSE {})
                 \cup (IF interactive(loaded[2], setup_csv) THEN {"viewer"} ELSE {})
           /\ IF interactive(loaded[2], setup_csv)
              THEN \E settings \in [DOMAIN stain_df -> LayerSettings] :
                     LET layers == add_images(loaded[1], settings)
                         sorted == sort_index(loaded[1])
                         df == [c \in DOMAIN sorted |-> recorded(sorted[c].key, layers)]
                     IN  /\ viewer_1' = [opened |-> TRUE, layers |-> layers]
                         /\ setup_csv' = [exists |-> TRUE,
                                          rows |-> written_rows(df, setup_csv)]
                         /\ stain_complete_df' = by_condition(df, stain_df)
              ELSE /\ viewer_1' = [opened |-> FALSE, layers |-> <<>>]
                   /\ stain_complete_df' = by_condition(loaded[1], stain_df)
                   /\ UNCHANGED setup_csv
    /\ pc' = "stain"
    /\ UNCHANGED <<stain_df, stain_dict, stdout, mergeVars, islandVars, assignVars,
                   pipeVars, preVars>>

NextSetup == StainRegistry \/ SetupCell

SpecSetup == InitSetup /\ [][NextSetup]_vars

-----------------------------------------------------------------------------
(* The preprocessing cells, from the load of the stack to the thresholding. *)
(* What a filter computes depends on intensities that are not modelled: a   *)
(* plane is the number of the plane in the file with the stages applied to  *)
(* it so far, each stage with its arguments.                                *)

\* a plane of the file, as read by get_image_data and scaled to uint8
raw_plane(z) == [plane |-> z, stages |-> <<>>]

applied(x, stage) == [x EXCEPT !.stages = Append(@, stage)]

\* filters.median(im)
median(x) == applied(x, <<"median">>)

\* filters.gaussian(im, 1.0, preserve_range=True); sigma in tenths
gaussian(x) == applied(x, <<"gaussian", 10>>)

\* contr_limit(im_in, c_min, c_max)
contr_limit(x, c_min, c_max) == applied(x, <<"contr_limit", c_min, c_max>>)

\* gamma_trans(im_in, gamma)
gamma_trans(x, gamma) == applied(x, <<"gamma_trans", gamma>>)

\* OtsuThresholdImageFilter (inside 0, outside 200), then
\* remove_small_islands(arrayseg, 30)
otsu_filtered(x) ==
    applied(applied(x, <<"otsu", 0, OutsideValue>>), <<"remove_small_islands", 30>>)

\* hist_plot(im_in, stain_complete_df): the exception it ends with, if any.
\* plt.subplots(1, 1) gives one Axes, which axs[z] cannot index; with more
\* planes than rows stain_complete_df.index[z] runs out of rows.
hist_plot(stack, df) ==
    IF Len(stack) = 1 /\ Len(df) >= 1 THEN "TypeError"
    ELSE IF Len(stack) > Len(df) THEN "IndexError"
    ELSE "none"

\* the rows a calibration can leave for one channel
RowSettings ==
    {[Cont_min |-> int_of(l.lo), Cont_max |-> int_of(l.hi), Gamma |-> l.gamma] :
        l \in LayerSettings}

\* the stain settings tables the calibration cell can leave: one row per
\* channel, one Condition per row
CalibratedTables ==
    UNION {{df \in [1 .. m -> [key : Keys, Cont_min : {r.Cont_min : r \in RowSettings},
                                Cont_max : {r.Cont_max : r \in RowSettings},
                                Gamma : {r.Gamma : r \in RowSettings}]] :
               /\ \A c \in 1 .. m :
                     [Cont_min |-> df[c].Cont_min, Cont_max |-> df[c].Cont_max,
                      Gamma |-> df[c].Gamma] \in RowSettings
               /\ \A a, b \in 1 .. m :
                     a # b => ConditionOf(df[a].key) # ConditionOf(df[b].key)} :
           m \in 1 .. MaxPlanes}

preFrame == <<stain_index, trig_stardist, im_threshold, defined, seg_raw, im_segmented,
              im_assigned, labels_df, xlsx_dict, meta, mergeVars, islandVars,
              assignVars, setupVars>>

InitPre ==
    /\ pc = "load"
    /\ meta \in {[z \in 1 .. n |-> raw_plane(z)] : n \in 1 .. MaxPlanes}
    /\ stain_complete_df \in CalibratedTables
    /\ stain_df = [c \in DOMAIN stain_complete_df |-> stain_complete_df[c].key]
    /\ im_out = Undefined
    /\ error = "none"
    /\ setup_csv = Unused /\ use_setup = Unused /\ viewer_1 = Unused
    /\ branches = Unused /\ stain_dict = Unused /\ stdout = Unused
    /\ stain_index = Unused /\ trig_stardist = Unused /\ im_threshold = Unused
    /\ defined = Unused /\ seg_raw = Unused /\ im_segmented = Unused
    /\ im_assigned = Unused /\ labels_df = Unused /\ xlsx_dict = Unused
    /\ MergeIdle /\ IslandIdle /\ AssignIdle

\* the end of a preprocessing cell: hist_plot(im_out, stain_complete_df)
PlotThen(stack, next) ==
    IF hist_plot(stack, stain_complete_df) = "none"
    THEN pc' = next /\ UNCHANGED error
    ELSE Raise(pc, hist_plot(stack, stain_complete_df))

\* cell: load and normalize image data for all channels
LoadImage ==
    /\ pc = "load"
    /\ im_out' = meta
    /\ PlotThen(im_out', "median")
    /\ UNCHANGED preFrame

\* cell: noise removal using median filter
median_cell(stack) == [z \in DOMAIN stack |-> median(stack[z])]

MedianFilter ==
    /\ pc = "median"
    /\ im_out' = median_cell(im_out)
    /\ PlotThen(im_out', "gaussian")
    /\ UNCHANGED preFrame

\* a cell that leaves the stack as it finds it
gaussian_cell_skipped(stack) == stack

\* cell: Gaussian filter for smoothing
gaussian_cell(stack) == [z \in DOMAIN stack |-> gaussian(stack[z])]

GaussianFilter ==
    /\ pc = "gaussian"
    /\ im_out' = gaussian_cell(im_out)
    /\ PlotThen(im_out', "contrast")
    /\ UNCHANGED preFrame

\* the loop of the contrast cell over the rows of stain_complete_df: plane c
\* gets contr_limit and then gamma_trans with the values of row c
contrast_cell(stack, df) ==
    [z \in DOMAIN stack |->
        IF z \in DOMAIN df
        THEN gamma_trans(contr_limit(stack[z], df[z].Cont_min, df[z].Cont_max),
                         df[z].Gamma)
        ELSE stack[z]]

\* cell: contrast and gamma adjustment for each channel; im_out[:, :, c] of
\* a row c past the last plane is an IndexError
ContrastGamma ==
    /\ pc = "contrast"
    /\ im_out' = contrast_cell(im_out, stain_complete_df)
    /\ IF Len(stain_complete_df) > Len(im_out)
       THEN Raise("contrast", "IndexError")
       ELSE PlotThen(im_out', "threshold")
    /\ UNCHANGED preFrame

\* cell: thresholding using Otsu's method and small island removal
threshold_cell(stack) == [z \in DOMAIN stack |-> otsu_filtered(stack[z])]

Threshold ==
    /\ pc = "threshold"
    /\ im_out' = threshold_cell(im_out)
    /\ pc' = "segmentation"
    /\ UNCHANGED <<error, preFrame>>

NextPre == LoadImage \/ MedianFilter \/ GaussianFilter \/ ContrastGamma \/ Threshold

SpecPre == InitPre /\ [][NextPre]_vars

-----------------------------------------------------------------------------
(* Properties: what the claims speak of, stated on pixels and not with the   *)
(* definitions of the model above                                            *)

Dist(a, b) == IF a >= b THEN a - b ELSE b - a

Adjacent4(p, q) == Dist(p[1], q[1]) + Dist(p[2], q[2]) = 1
Adjacent8(p, q) == p # q /\ Dist(p[1], q[1]) <= 1 /\ Dist(p[2], q[2]) <= 1

\* two different nonzero labels of M that meet on a pair of 8-adjacent pixels
Touch(M, a, b) ==
    /\ a # b /\ a # 0 /\ b # 0
    /\ \E p, q \in Pix : Adjacent8(p, q) /\ M[p] = a /\ M[q] = b

\* the labels joined to a label of S by a chain of touching labels
RECURSIVE ChainFrom(_, _)
ChainFrom(M, S) ==
    LET N == {b \in Range(M) \ S : \E a \in S : Touch(M, a, b)}
    IN  IF N = {} THEN S ELSE ChainFrom(M, S \cup N)

Chained(M, a, b) == b \in ChainFrom(M, {a})

\* the connected component of p in the nonzero pixels of M; eight = TRUE for
\* 8-connectivity
RECURSIVE IslandFrom(_, _, _)
IslandFrom(M, S, eight) ==
    LET N == {q \in Pix \ S : /\ M[q] # 0
                              /\ \E p \in S : IF eight THEN Adjacent8(p, q)
                                              ELSE Adjacent4(p, q)}
    IN  IF N = {} THEN S ELSE IslandFrom(M, S \cup N, eight)

Island(M, p, eight) == IslandFrom(M, {p}, eight)

\* C2: after merge_touching_labels, two foreground pixels carry the same label
\* exactly when their input labels are equal or joined by a chain of touching
\* labels, and no two 8-adjacent pixels carry different nonzero labels.
C2_MergedIffChained ==
    pc = "return" =>
        /\ \A p, q \in Pix :
              (label_matrix[p] # 0 /\ label_matrix[q] # 0) =>
                  ((merged[p] = merged[q])
                      <=> Chained(label_matrix, label_matrix[p], label_matrix[q]))
        /\ \A p, q \in Pix :
              (Adjacent8(p, q) /\ merged[p] # 0 /\ merged[q] # 0) =>
                  merged[p] = merged[q]

\* two labels that do not touch each other are merged through a third
C2_Witness ==
    /\ pc = "return"
    /\ \E p, q \in Pix :
          /\ label_matrix[p] # 0 /\ label_matrix[q] # 0
          /\ label_matrix[p] # label_matrix[q]
          /\ ~Touch(label_matrix, label_matrix[p], label_matrix[q])
          /\ merged[p] = merged[q]

\* C3: the nonzero labels of the matrix returned by merge_touching_labels are
\* exactly 1..k, k the number of merged components (0 for all background).
C3_LabelsConsecutive ==
    pc = "return" =>
        LET k == Cardinality({ChainFrom(label_matrix, {a}) :
                                 a \in Range(label_matrix) \ {0}})
        IN  Range(merged) \ {0} = 1 .. k

\* an input whose labels are not 1..k: two components that keep apart, none
\* of them labelled 1
C3_Witness ==
    /\ pc = "return"
    /\ 1 \notin Range(label_matrix)
    /\ Range(merged) \ {0} = {1, 2}

\* C10: merge_touching_labels keeps the foreground (a pixel is nonzero in the
\* result exactly when it is nonzero in the input, so the count is kept) and
\* leaves its argument as it was.
C10_ForegroundKept ==
    [][(pc = "call" /\ pc' = "return") =>
          /\ label_matrix' = label_matrix
          /\ \A p \in Pix : (merged'[p] # 0) <=> (label_matrix[p] # 0)
          /\ Cardinality({p \in Pix : merged'[p] # 0})
                = Cardinality({p \in Pix : label_matrix[p] # 0})]_vars

\* a call that merged two labels and also met a label that touches no other
C10_Witness ==
    /\ pc = "return"
    /\ \E p, q \in Pix : /\ Touch(label_matrix, label_matrix[p], label_matrix[q])
                         /\ merged[p] = merged[q]
    /\ \E p \in Pix : /\ label_matrix[p] # 0
                      /\ ChainFrom(label_matrix, {label_matrix[p]}) = {label_matrix[p]}
                      /\ merged[p] # 0

\* C4: remove_small_islands zeroes every pixel of each 4-connected component
\* whose pixel count is strictly below the threshold and leaves every other
\* pixel at its original value.
C4_SmallIslandsZeroed ==
    pc = "return" =>
        \A p \in Pix :
            binary_matrix[p] =
                IF /\ arrayseg0[p] # 0
                   /\ Cardinality(Island(arrayseg0, p, FALSE)) < area_threshold
                THEN 0 ELSE arrayseg0[p]

\* one component under the threshold was zeroed and one of exactly the
\* threshold was kept
C4_Witness ==
    /\ pc = "return"
    /\ \E p, q \in Pix :
          /\ arrayseg0[p] # 0 /\ binary_matrix[p] = 0
          /\ arrayseg0[q] # 0 /\ binary_matrix[q] = arrayseg0[q]
          /\ Cardinality(Island(arrayseg0, q, FALSE)) = area_threshold

\* the nonzero labels of Bm on the pixels P
LabelsOn(Bm, P) == {Bm[p] : p \in P} \ {0}

\* the first nonzero label of Bm met when the pixels P are scanned in
\* row-major order, 0 when there is none
FirstInScan(Bm, P) ==
    LET L == {p \in P : Bm[p] # 0}
    IN  IF L = {} THEN 0
        ELSE Bm[CHOOSE p \in L : \A q \in L : ravel(p) <= ravel(q)]

\* C9 as stated: every component of A carries the first nonzero label of B met
\* in row-major order over the component's pixels.
C9_FirstInScanOrder ==
    pc = "return" =>
        \A p \in Pix :
            A[p] # 0 => C[p] = FirstInScan(B, Island(A, p, connectivity = 2))

\* C9 amended: every component of A carries one single label, the smallest
\* nonzero label of B on the component's pixels (0 when there is none), and
\* the pixels outside A are 0.
C9_SmallestLabel ==
    pc = "return" =>
        \A p \in Pix :
            IF A[p] = 0 THEN C[p] = 0
            ELSE LET L == LabelsOn(B, Island(A, p, connectivity = 2))
                 IN  /\ C[p] = IF L = {} THEN 0 ELSE Min(L)
                     /\ \A q \in Island(A, p, connectivity = 2) : C[q] = C[p]

\* a component whose first label in scan order is not its smallest
C9_Witness ==
    /\ pc = "return"
    /\ \E p \in Pix :
          /\ A[p] # 0
          /\ FirstInScan(B, Island(A, p, connectivity = 2)) # C[p]
          /\ C[p] = Min(LabelsOn(B, Island(A, p, connectivity = 2)))

\* number of pixels of P that carry the label l in Bm
Covered(Bm, P, l) == Cardinality({p \in P : Bm[p] = l})

\* C1 as stated: when the assignment cell has returned (pc = "quantification"),
\* every island of a non-NUCLEI channel's thresholded mask carries the nucleus
\* label that covers the largest number of the island's pixels.
C1_MajorityOverlap ==
    pc = "quantification" =>
        \A z \in Channels : stain_index[z] # "NUCLEI" =>
            \A p \in Pix : im_threshold[z][p] # 0 =>
                LET isl == Island(im_threshold[z], p, FALSE)
                    L == LabelsOn(im_segmented, isl)
                IN  L # {} =>
                       /\ im_assigned[z][p] \in L
                       /\ \A l \in L : Covered(im_segmented, isl, l)
                                          <= Covered(im_segmented, isl, im_assigned[z][p])

\* C1 amended: when the assignment cell has returned, every island (4-connectivity) of a non-NUCLEI channel's
\* thresholded mask gets the smallest nonzero nucleus label found on its
\* pixels, however many pixels each label covers, and 0 when it meets none.
C1_SmallestOverlap ==
    pc = "quantification" =>
        \A z \in Channels : stain_index[z] # "NUCLEI" =>
            \A p \in Pix : im_threshold[z][p] # 0 =>
                LET L == LabelsOn(im_segmented, Island(im_threshold[z], p, FALSE))
                IN  im_assigned[z][p] = IF L = {} THEN 0 ELSE Min(L)

\* an island that meets two nuclei and gets the smaller label although the
\* larger one covers more of its pixels
C1_Witness ==
    /\ pc = "quantification"
    /\ \E z \in Channels : \E p \in Pix :
          /\ stain_index[z] # "NUCLEI" /\ im_threshold[z][p] # 0
          /\ LET isl == Island(im_threshold[z], p, FALSE)
                 L == LabelsOn(im_segmented, isl)
             IN  /\ Cardinality(L) >= 2
                 /\ im_assigned[z][p] = Min(L)
                 /\ Covered(im_segmented, isl, Max(L)) > Covered(im_segmented, isl, Min(L))

\* C5: the sheet NUCLEI has one row for every counted nucleus, labels 1..N,
\* each with the nucleus's mean position and area.
C5_OneRowPerNucleus ==
    pc = "done" =>
        /\ DOMAIN xlsx_dict = 1 .. labels_df[1].Number
        /\ \A k \in DOMAIN xlsx_dict :
              /\ xlsx_dict[k].X = mean_position(im_segmented, k)[1]
              /\ xlsx_dict[k].Y = mean_position(im_segmented, k)[2]
              /\ xlsx_dict[k].NucleiSize = area_of(im_segmented, k)

\* C6: in both segmentation modes im_segmented is the segmentation result
\* with touching labels merged: it keeps the foreground, joins exactly the
\* labels chained by touching, and has no two 8-adjacent different labels.
C6_SegmentedIsMerged ==
    pc = "assignment" /\ "im_segmented" \in defined =>
        /\ \A p \in Pix : (im_segmented[p] # 0) <=> (seg_raw[p] # 0)
        /\ \A p, q \in Pix :
              (seg_raw[p] # 0 /\ seg_raw[q] # 0) =>
                  ((im_segmented[p] = im_segmented[q])
                      <=> Chained(seg_raw, seg_raw[p], seg_raw[q]))
        /\ \A p, q \in Pix :
              (Adjacent8(p, q) /\ im_segmented[p] # 0 /\ im_segmented[q] # 0) =>
                  im_segmented[p] = im_segmented[q]

\* the keys that have a row in the setup CSV
StoredKeys(csv) == {r.key : r \in csv.rows}

\* C7: once the CSV holds the keys of a stain table they stay in it, and a
\* run with use_setup true whose keys are all in the CSV takes Cont_min,
\* Cont_max and Gamma of every channel from the CSV, opens no viewer and
\* leaves the CSV as it is.
C7_CalibrationReused ==
    [][/\ setup_csv.exists =>
            (setup_csv'.exists /\ StoredKeys(setup_csv) \subseteq StoredKeys(setup_csv'))
       /\ (/\ pc = "setup" /\ use_setup /\ setup_csv.exists
           /\ \A c \in DOMAIN stain_df : stain_df[c] \in StoredKeys(setup_csv))
          => /\ ~viewer_1'.opened
             /\ setup_csv' = setup_csv
             /\ DOMAIN stain_complete_df' = DOMAIN stain_df
             /\ \A c \in DOMAIN stain_df :
                   /\ stain_complete_df'[c].key = stain_df[c]
                   /\ stain_complete_df'[c] \in setup_csv.rows]_vars

\* a run that took values other than the defaults from the CSV, with no viewer
C7_Witness ==
    /\ pc = "stain" /\ branches = {"read_csv"} /\ ~viewer_1.opened
    /\ \E c \in DOMAIN stain_complete_df :
          /\ stain_complete_df[c] \in setup_csv.rows
          /\ stain_complete_df[c].Cont_min # 0

\* C8: when the CSV exists and lacks the key of a channel, the calibration
\* cell ends without error, with the viewer opened and the Cont_min, Cont_max
\* (as integers) and Gamma of every channel read from the viewer's layers.
C8_FallBackToViewer ==
    [][(/\ pc = "setup" /\ use_setup /\ setup_csv.exists
        /\ \E c \in DOMAIN stain_df : stain_df[c] \notin StoredKeys(setup_csv))
       => /\ pc' = "stain"
          /\ viewer_1'.opened
          /\ DOMAIN stain_complete_df' = DOMAIN stain_df
          /\ \A c \in DOMAIN stain_df :
                LET left == CHOOSE l \in Range(viewer_1'.layers) :
                                l.name = <<KeyTuple[stain_df[c]][1], KeyTuple[stain_df[c]][2]>>
                IN  /\ stain_complete_df'[c].key = stain_df[c]
                    /\ stain_complete_df'[c].Cont_min = left.lo \div 10
                    /\ stain_complete_df'[c].Cont_max = left.hi \div 10
                    /\ stain_complete_df'[c].Gamma = left.gamma]_vars

\* a run that found one key stored with other values and one key missing, and
\* ended with the viewer's values for both
C8_Witness ==
    /\ pc = "stain" /\ viewer_1.opened
    /\ branches = {"read_csv", "key_missing", "viewer"}
    /\ \E r \in setup_csv.rows :
          \E c \in DOMAIN stain_complete_df :
              r.key = stain_complete_df[c].key /\ r = stain_complete_df[c]
    /\ \E c, d \in DOMAIN stain_complete_df :
          /\ c # d
          /\ stain_complete_df[c].Cont_min # 0
          /\ stain_complete_df[d].Cont_min = 0

\* C11: the stain registry cell always hands over to the next cell, with one
\* row of stain_df per entry of stain_dict, in the same order, holding the
\* entry's Condition, Marker and Color in upper case, whether NUCLEI is among
\* the Conditions or not; it prints 'No nuclei condition!' when NUCLEI is not
\* among them, and nothing otherwise.
C11_RegistryOnlyWarns ==
    [][pc = "stain" =>
          /\ pc' = "setup"
          /\ DOMAIN stain_df' = DOMAIN stain_dict'
          /\ \A c \in DOMAIN stain_dict' :
                \A n \in 1 .. 3 : KeyTuple[stain_df'[c]][n] = upper(stain_dict'[c][n])
          /\ IF \E c \in DOMAIN stain_dict' : upper(stain_dict'[c][1]) = "NUCLEI"
             THEN stdout' = <<>>
             ELSE stdout' = <<"No nuclei condition!">>]_vars

\* the registry cell has run on a dictionary without NUCLEI, typed in mixed
\* case, and the calibration cell is next
C11_Witness ==
    /\ pc = "setup"
    /\ stdout = <<"No nuclei condition!">>
    /\ \A c \in DOMAIN stain_df : KeyTuple[stain_df[c]][1] # "NUCLEI"
    /\ \E c \in DOMAIN stain_dict : stain_dict[c][3] # KeyTuple[stain_df[c]][3]

\* the whole chain of the channel z: median, Gaussian, contrast limits and
\* gamma of the channel's own row, thresholding
Chain(z) ==
    <<  <<"median">>, <<"gaussian", 10>>  >>
    \o (IF z \in DOMAIN stain_complete_df
        THEN <<  <<"contr_limit", stain_complete_df[z].Cont_min,
                   stain_complete_df[z].Cont_max>>,
                 <<"gamma_trans", stain_complete_df[z].Gamma>>,
                 <<"otsu", 0, 200>>, <<"remove_small_islands", 30>>  >>
        ELSE <<>>)

IsPrefix(s, t) == Len(s) <= Len(t) /\ \A n \in 1 .. Len(s) : s[n] = t[n]

Thresholded(x) == \E n \in DOMAIN x.stages : x.stages[n][1] = "otsu"

\* C12: at every moment the stages applied to a plane are an initial part of
\* the chain median, Gaussian, contrast limits, gamma, thresholding, in that
\* order; a plane that has been thresholded has the whole chain before the
\* thresholding; and when the thresholding cell has returned every plane of
\* the file has gone through the whole chain.
C12_StagesInOrder ==
    im_out # Undefined =>
        /\ \A z \in DOMAIN im_out :
              /\ im_out[z].plane = z
              /\ IsPrefix(im_out[z].stages, Chain(z))
              /\ Thresholded(im_out[z]) => im_out[z].stages = Chain(z)
        /\ pc = "segmentation" =>
              /\ DOMAIN im_out = DOMAIN meta
              /\ \A z \in DOMAIN im_out :
                    z \in DOMAIN stain_complete_df /\ im_out[z].stages = Chain(z)

\* the thresholding cell has returned on a stack of at least two planes whose
\* rows hold different contrast limits
C12_Witness ==
    /\ pc = "segmentation"
    /\ Len(im_out) >= 2
    /\ \A z \in DOMAIN im_out : Thresholded(im_out[z])
    /\ stain_complete_df[1].Cont_min # stain_complete_df[2].Cont_min

\* the channel a row of labels_df was computed from
ChannelOf(t) == CHOOSE z \in Channels : stain_index[z] = labels_df[t].Condition

\* C13: in every marker row of the quantification record, 'Shared labels'
\* lists the nonzero labels of the marker's assigned matrix, each once and in
\* ascending order (the order of the positions and areas), its length is
\* Number, and the cell size found at a label's index in 'Shared labels' is
\* the area of that label in the assigned matrix.
C13_SharedLabelsAligned ==
    pc \in {"plots", "export", "done"} =>
        \A t \in 2 .. Len(labels_df) :
            LET assigned == im_assigned[ChannelOf(t)]
                shared == labels_df[t].Shared
            IN  /\ shared = SortedSeq(LabelsOn(assigned, Pix))
                /\ Len(shared) = labels_df[t].Number
                /\ \A n \in DOMAIN shared :
                      /\ n \in DOMAIN labels_df[t].CellSize
                      /\ labels_df[t].CellSize[n] =
                            Cardinality({p \in Pix : assigned[p] = shared[n]}) * r_X * r_Y

NoNuclei == \A z \in Channels : stain_index[z] # "NUCLEI"

\* C14: in a run from a fresh kernel whose stain table has no NUCLEI, the
\* segmentation cell binds no im_segmented and hands over to the assignment
\* cell, the only step the assignment cell can take is to end the run with a
\* NameError, and so the run never reaches the quantification or the export
\* and the sheet is never written.
C14_NoNucleiNoReport ==
    /\ [](NoNuclei =>
            /\ "im_segmented" \notin defined /\ im_segmented = Undefined
            /\ "xlsx_dict" \notin defined /\ xlsx_dict = Undefined
            /\ pc \in {"segmentation", "assignment", "failed"}
            /\ pc = "failed" => error = [cell |-> "assignment", type |-> "NameError"])
    /\ [][NoNuclei =>
            /\ pc = "segmentation" => (pc' = "assignment" /\ error' = "none")
            /\ pc = "assignment" =>
                  (pc' = "failed" /\ error' = [cell |-> "assignment", type |-> "NameError"])
            /\ pc # "failed"]_vars

\* the run without NUCLEI has ended in the assignment cell, after a
\* segmentation cell that bound nothing
C14_Witness ==
    /\ NoNuclei
    /\ pc = "failed"
    /\ error = [cell |-> "assignment", type |-> "NameError"]
    /\ defined = {}

\* C15: when the calibration cell returns, row c of stain_complete_df is the
\* row of the key of channel c. On the interactive path its Cont_min,
\* Cont_max and Gamma are those left in the layer that showed plane c, which
\* bears the name of channel c; on the load path they are those stored in
\* the CSV under the key of channel c.
C15_RowsFollowChannels ==
    [][pc = "setup" =>
          /\ DOMAIN stain_complete_df' = DOMAIN stain_df
          /\ \A c \in DOMAIN stain_df :
                /\ stain_complete_df'[c].key = stain_df[c]
                /\ IF viewer_1'.opened
                   THEN LET layer == viewer_1'.layers[c]
                        IN  /\ layer.plane = c
                            /\ layer.name = <<KeyTuple[stain_df[c]][1],
                                              KeyTuple[stain_df[c]][2]>>
                            /\ stain_complete_df'[c].Cont_min = layer.lo \div 10
                            /\ stain_complete_df'[c].Cont_max = layer.hi \div 10
                            /\ stain_complete_df'[c].Gamma = layer.gamma
                   ELSE stain_complete_df'[c] \in setup_csv.rows]_vars

\* an interactive calibration of a stain table whose channels are not in the
\* order of their keys, with different settings left in the two layers
C15_Witness ==
    /\ pc = "stain" /\ "viewer" \in branches /\ viewer_1.opened
    /\ stain_df[1] > stain_df[2]
    /\ viewer_1.layers[1].lo # viewer_1.layers[2].lo
    /\ stain_complete_df[1].Cont_min # stain_complete_df[2].Cont_min

\* C16: when the viewer path of the calibration cell runs and the CSV exists,
\* the CSV it writes holds the rows of the old CSV whose key is not a key of
\* the current stain table, as they were, no other row under such a key, and
\* for each key of the current stain table exactly one row, with the
\* Cont_min, Cont_max (as integers) and Gamma just read from the key's layer.
C16_CsvMergedByKey ==
    [][(pc = "setup" /\ setup_csv.exists /\ viewer_1'.opened) =>
          /\ setup_csv'.exists
          /\ \A r \in setup_csv.rows \cup setup_csv'.rows :
                (\A c \in DOMAIN stain_df : r.key # stain_df[c])
                    => (r \in setup_csv.rows /\ r \in setup_csv'.rows)
          /\ \A c \in DOMAIN stain_df :
                LET layer == CHOOSE l \in Range(viewer_1'.layers) :
                                 l.name = <<KeyTuple[stain_df[c]][1], KeyTuple[stain_df[c]][2]>>
                IN  {r \in setup_csv'.rows : r.key = stain_df[c]}
                       = {[key |-> stain_df[c], Cont_min |-> layer.lo \div 10,
                           Cont_max |-> layer.hi \div 10, Gamma |-> layer.gamma]}]_vars

\* an interactive calibration, entered because the CSV lacked a key, has
\* rewritten the CSV: it holds a row of another run under a key the current
\* stain table lacks, and newly recorded rows that differ from one another
C16_Witness ==
    /\ pc = "stain" /\ viewer_1.opened
    /\ branches = {"read_csv", "key_missing", "viewer"}
    /\ \E r \in setup_csv.rows :
          /\ \A c \in DOMAIN stain_df : r.key # stain_df[c]
          /\ r.Cont_min # 0
    /\ \E r1, r2 \in setup_csv.rows :
          /\ r1.key = stain_df[1] /\ r2.key = stain_df[2]
          /\ r1.Cont_min # r2.Cont_min

====
